---- MODULE Spec2Model ----
(***************************************************************************)
(* A model of sim.sensors.CameraSensor (client/js/lib/sim/sensors/         *)
(* CameraSensor.js): the constructor, setSize and getFrame/__getFrame.     *)
(*                                                                         *)
(* Configuration objects live in a small heap so that aliasing between the *)
(* caller's config, the camera config and the renderer config is explicit. *)
(* Numbers that JavaScript holds as doubles are modelled exactly: aspect   *)
(* ratios as reduced fractions, clip distances in thousandths of a metre,  *)
(* and the grayscale arithmetic as IEEE-754 double arithmetic on limbs.    *)
(***************************************************************************)
EXTENDS Integers, Sequences, FiniteSets, TLC

VARIABLES
  pc,                \* "new", "idle", "capture", "gray", "finish"
  heap,              \* object id -> configuration object
  isBrowser,         \* Constants.isBrowser
  factory,           \* behaviour of opts.getRenderer
  showDebugNode,     \* this.showDebugNode
  camera,            \* this.camera
  renderer,          \* this.renderer
  numFramesRendered, \* this.numFramesRendered
  debugNode,         \* sceneState.debugNode
  scenes,            \* names of the scenes the caller renders
  scenePixels,       \* the raw RGBA bytes the renderer produces for a scene
  frame,             \* locals of the getFrame call in progress
  result,            \* outcome of the last getFrame call
  pngFiles,          \* history: <<scene, file name>> of every renderToPng call
  factoryArg,        \* history: the config object handed to opts.getRenderer
  sizeLog,           \* history: the last invocation of this.setSize
  config0            \* history: the caller's config as it was before construction

vars == <<pc, heap, isBrowser, factory, showDebugNode, camera, renderer,
          numFramesRendered, debugNode, scenes, scenePixels, frame, result,
          pngFiles, factoryArg, sizeLog, config0>>

----------------------------------------------------------------------------
(* Bounds of the model *)

MaxDim == 2          \* widths and heights of config.resolution are 1..MaxDim
MaxSizeArg == 3      \* arguments of setSize are 1..MaxSizeArg
MaxViews == 2        \* config.position has 1..MaxViews entries
MaxFrames == 11      \* getFrame is called while numFramesRendered < MaxFrames
MaxPixels == 2       \* raw pixel buffers hold 1..MaxPixels pixels

Dims == 1..MaxDim
SizeArgs == 1..MaxSizeArg

----------------------------------------------------------------------------
(* JavaScript values *)

Undefined == -1            \* an absent numeric property
NoHint == "undefined"      \* an absent config.renderer
NoShape == <<>>            \* an absent config.cameraArrayShape

StrictNotEqual(a, b) == a # b

Min(a, b) == IF a < b THEN a ELSE b

RECURSIVE GCD(_, _)
GCD(a, b) == IF b = 0 THEN a ELSE GCD(b, a % b)

\* width / height: equal quotients are equal doubles, so a reduced fraction
Ratio(w, h) == <<w \div GCD(w, h), h \div GCD(w, h)>>

----------------------------------------------------------------------------
(* Configuration objects *)

ConfigObj == 1         \* the object the caller passes as config
CameraConfigObj == 2   \* Object.create(null) filled by _.defaults
CloneObj == 3          \* the object _.clone(config) allocates
ObjIds == {ConfigObj, CameraConfigObj, CloneObj}

EmptyObj ==
  [name |-> "", position |-> <<>>, resolution |-> <<>>, width |-> Undefined,
   height |-> Undefined, renderer |-> NoHint, fov |-> Undefined,
   near |-> Undefined, far |-> Undefined, encoding |-> "",
   cameraArrayShape |-> NoShape]

Encodings == {"rgba", "gray", "pngbuf", "pngfile", "pngseq", "screen"}
UnknownEncodings == {"bogus"}

\* Clip distances are held in thousandths of a metre.
DefaultFov == 45
DefaultNear == 1
DefaultFar == 20000
metersToVirtualUnit == 100

\* _.defaults(Object.create(null), config, {fov, near, far})
Defaults(config) ==
  [config EXCEPT !.fov = IF @ = Undefined THEN DefaultFov ELSE @,
                 !.near = IF @ = Undefined THEN DefaultNear ELSE @,
                 !.far = IF @ = Undefined THEN DefaultFar ELSE @]

\* lines 24-33: the sensor's private camera configuration
CameraConfig(config) ==
  LET d == Defaults(config)
  IN [d EXCEPT !.near = d.near * metersToVirtualUnit,
               !.far = d.far * metersToVirtualUnit,
               !.width = d.resolution[1],
               !.height = d.resolution[2]]

\* the object the target of _.defaults refers to
CameraConfigTarget == CameraConfigObj

\* var rendererConfig = config; ... rendererConfig = _.clone(config);
RendererConfigAliased(isArray) == ConfigObj
RendererConfigTarget(isArray) == IF isArray THEN CloneObj ELSE ConfigObj

\* the array branch drops the 'main' hint outside a browser
DropsMainHintAlways(browser, hint) == TRUE
DropsMainHint(browser, hint) == (~browser) /\ hint = "main"

----------------------------------------------------------------------------
(* Camera and Renderer collaborators *)

NoCamera ==
  [aspect |-> <<1, 1>>, projAspect |-> <<1, 1>>, fov |-> 0, near |-> 0,
   far |-> 0, isArrayCamera |-> FALSE, shape |-> NoShape,
   imageShape |-> NoShape, subSize |-> NoShape, name |-> ""]

\* new Camera(fov, aspect, near, far); ...; cam.updateProjectionMatrix()
NewCamera(cc) ==
  [NoCamera EXCEPT !.aspect = Ratio(cc.width, cc.height),
                   !.projAspect = Ratio(cc.width, cc.height),
                   !.fov = cc.fov, !.near = cc.near, !.far = cc.far]

\* Camera.createArrayCamera(cameraConfig): the views side by side in one row
createArrayCamera(cc) ==
  LET n == Len(cc.position)
      image == <<cc.width * n, cc.height>>
  IN [NoCamera EXCEPT !.aspect = Ratio(image[1], image[2]),
                      !.projAspect = Ratio(image[1], image[2]),
                      !.fov = cc.fov, !.near = cc.near, !.far = cc.far,
                      !.isArrayCamera = TRUE,
                      !.shape = <<n, 1>>,
                      !.imageShape = image,
                      !.subSize = <<cc.width, cc.height>>]

NoRenderer == [width |-> 0, height |-> 0, maxSize |-> 0]

\* a renderer may silently clamp the size it is asked for
RendererSetSize(rend, w, h) ==
  [rend EXCEPT !.width = Min(w, rend.maxSize), !.height = Min(h, rend.maxSize)]

\* opts.getRenderer(rendererConfig, opts): a fresh renderer of the requested
\* resolution, or one that keeps a size of its own (the "main" renderer)
getRenderer(rc) ==
  LET want == IF factory.ownSize = NoShape THEN rc.resolution ELSE factory.ownSize
  IN RendererSetSize([NoRenderer EXCEPT !.maxSize = factory.maxSize],
                     want[1], want[2])

----------------------------------------------------------------------------
(* CameraSensor.prototype.setSize *)

RendererNeedsResizeAlways(rend, w, h) == TRUE
RendererNeedsResize(rend, w, h) ==
  StrictNotEqual(rend.width, w) \/ StrictNotEqual(rend.height, h)

SetSizeOp(cam, rend, w, h) ==
  LET cam1 == [cam EXCEPT !.aspect = Ratio(w, h), !.projAspect = Ratio(w, h)]
      cam2 == IF cam1.isArrayCamera
                THEN [cam1 EXCEPT !.subSize = <<w, h>>]
                ELSE cam1
      differs == RendererNeedsResize(rend, w, h)
  IN [camera |-> cam2,
      renderer |-> IF differs THEN RendererSetSize(rend, w, h) ELSE rend,
      log |-> [called |-> TRUE, inConstructor |-> FALSE, width |-> w,
               height |-> h, rendererSetSize |-> differs]]

NoSizeLog ==
  [called |-> FALSE, inConstructor |-> FALSE, width |-> 0, height |-> 0,
   rendererSetSize |-> FALSE]

----------------------------------------------------------------------------
(* CameraSensor constructor *)

\* line 65: the "weird resizing" test of the constructor
ConstructionNeedsResize(rend, rc) ==
  StrictNotEqual(rend.width, rc.width) \/ StrictNotEqual(rend.height, rc.height)

InitialFrameCount == 0

NoFrame ==
  [scene |-> "", debugNodeVisibility |-> FALSE, visBefore |-> FALSE,
   countBefore |-> 0, p |-> <<>>, i |-> 0, written |-> {}, staleRead |-> FALSE,
   drawn |-> "none", record |-> [type |-> "", data |-> [kind |-> "null", bytes |-> <<>>],
                                 encoding |-> "", shape |-> <<>>]]

NoResult == [kind |-> "none", frame |-> NoFrame]

Construct ==
  /\ pc = "new"
  /\ LET h1 == [heap EXCEPT ![CameraConfigTarget] = CameraConfig(heap[ConfigObj])]
         cc == h1[CameraConfigTarget]
         isArray == Len(cc.position) > 1
         cam0 == IF isArray THEN createArrayCamera(cc) ELSE NewCamera(cc)
         cam == [cam0 EXCEPT !.name = heap[ConfigObj].name]
         rcRef == RendererConfigTarget(isArray)
         h2 == IF isArray THEN [h1 EXCEPT ![rcRef] = h1[ConfigObj]] ELSE h1
         h3 == IF isArray
                 THEN [h2 EXCEPT ![rcRef].cameraArrayShape = cam.shape,
                                 ![rcRef].resolution = cam.imageShape]
                 ELSE h2
         h4 == IF isArray /\ DropsMainHint(isBrowser, h3[rcRef].renderer)
                 THEN [h3 EXCEPT ![rcRef].renderer = NoHint]
                 ELSE h3
         rc == h4[rcRef]
         rend == getRenderer(rc)
         sz == SetSizeOp(cam, rend, rend.width, rend.height)
     IN /\ heap' = h4
        /\ factoryArg' = [ref |-> rcRef, obj |-> rc]
        /\ IF ConstructionNeedsResize(rend, rc)
             THEN /\ camera' = sz.camera
                  /\ renderer' = sz.renderer
                  /\ sizeLog' = [sz.log EXCEPT !.inConstructor = TRUE]
             ELSE /\ camera' = cam
                  /\ renderer' = rend
                  /\ sizeLog' = NoSizeLog
  /\ numFramesRendered' = InitialFrameCount
  /\ pc' = "idle"
  /\ UNCHANGED <<isBrowser, factory, showDebugNode, debugNode, scenes,
                 scenePixels, frame, result, pngFiles, config0>>

\* a call of sensor.setSize(w, h) by the owner of the sensor
SetSize(w, h) ==
  /\ pc = "idle"
  /\ LET sz == SetSizeOp(camera, renderer, w, h)
     IN /\ camera' = sz.camera
        /\ renderer' = sz.renderer
        /\ sizeLog' = sz.log
  /\ UNCHANGED <<pc, heap, isBrowser, factory, showDebugNode, numFramesRendered,
                 debugNode, scenes, scenePixels, frame, result, pngFiles,
                 factoryArg, config0>>

----------------------------------------------------------------------------
(* Grayscale arithmetic: 0.2126 * p[b] + 0.7152 * p[b+1] + 0.0722 * p[b+2]    *)
(* in IEEE-754 doubles.  A value is a natural number of units of 2^-56,      *)
(* held in three limbs of 22 bits, least significant first; the three        *)
(* literals are exact in that unit.                                          *)

LimbBase == 4194304    \* 2^22

RECURSIVE Pow2(_)
Pow2(k) == IF k = 0 THEN 1 ELSE 2 * Pow2(k - 1)

RECURSIVE BitLen(_)
BitLen(x) == IF x = 0 THEN 0 ELSE 1 + BitLen(x \div 2)

Carry(t) ==
  LET t1 == t[2] + (t[1] \div LimbBase)
  IN <<t[1] % LimbBase, t1 % LimbBase, t[3] + (t1 \div LimbBase)>>

LimbAdd(a, b) == Carry(<<a[1] + b[1], a[2] + b[2], a[3] + b[3]>>)
LimbMul(a, r) == Carry(<<a[1] * r, a[2] * r, a[3] * r>>)

\* round to 53 significant bits, ties to even
RoundDouble(a) ==
  LET len == IF a[3] > 0 THEN 44 + BitLen(a[3]) ELSE 0
      unit == Pow2(len - 53)
      rem == a[1] % unit
      down == <<a[1] - rem, a[2], a[3]>>
      odd == (a[1] \div unit) % 2 = 1
  IN IF len <= 53 THEN a
     ELSE IF 2 * rem > unit \/ (2 * rem = unit /\ odd)
            THEN LimbAdd(down, <<unit, 0, 0>>)
            ELSE down

CoefR == <<2174328, 3395708, 870>>     \* 0.2126
CoefG == <<1664296, 1926024, 2929>>    \* 0.7152
CoefB == <<355677, 3066875, 295>>      \* 0.0722

DoubleMul(c, byte) == RoundDouble(LimbMul(c, byte))
DoubleAdd(a, b) == RoundDouble(LimbAdd(a, b))

\* the double the right-hand side of line 111 evaluates to
Luma(r, g, b) ==
  DoubleAdd(DoubleAdd(DoubleMul(CoefR, r), DoubleMul(CoefG, g)), DoubleMul(CoefB, b))

\* storing a non-negative double into a Uint8Array: truncate, then modulo 2^8
ToUint8(a) == (a[3] \div 4096) % 256

\* var b = i << 2
PixelBaseShifted(i) == i * 2
PixelBase(i) == i * 4

\* one iteration of the loop of lines 109-112 (i counts from 0)
GrayIter(p, i) ==
  LET b == PixelBase(i)
  IN [p EXCEPT ![i + 1] = ToUint8(Luma(p[b + 1], p[b + 2], p[b + 3]))]

\* the indices (from 0) iteration i reads
GrayReads(i) == {PixelBase(i), PixelBase(i) + 1, PixelBase(i) + 2}

----------------------------------------------------------------------------
(* File names of the PNG encodings *)

DigitChars == <<"0", "1", "2", "3", "4", "5", "6", "7", "8", "9">>

\* String(n) of a non-negative integer, one character per element
RECURSIVE NumberToString(_)
NumberToString(n) ==
  IF n < 10 THEN <<DigitChars[n + 1]>>
  ELSE NumberToString(n \div 10) \o <<DigitChars[(n % 10) + 1]>>

\* _.padStart(string, length, chars) for a one-character chars
padStart(s, length, ch) ==
  IF Len(s) >= length THEN s ELSE [k \in 1..(length - Len(s)) |-> ch] \o s

SeqPadLength == 5

PngFileName(sceneId, name) == <<sceneId, "_", name, ".png">>

PngSeqIndexPost(count) == count + 1
PngSeqIndex(count) == count

PngSeqName(sceneId, name, count) ==
  <<sceneId, "_", name, "_">>
    \o padStart(NumberToString(PngSeqIndex(count)), SeqPadLength, "0")
    \o <<".png">>

----------------------------------------------------------------------------
(* CameraSensor.prototype.getFrame and __getFrame *)

NullData == [kind |-> "null", bytes |-> <<>>]

\* this.config and this.name, set by Sensor.call(this, config)
SensorEncoding == heap[ConfigObj].encoding
SensorName == heap[ConfigObj].name

\* lines 77-80: sceneState.debugNode.visible = this.showDebugNode
VisibilityLeftAlone(flag, visible) == visible
VisibilityDuringCapture(flag, visible) == flag

\* lines 84-86: sceneState.debugNode.visible = debugNodeVisibility
VisibilityAfterCapture(saved, visible) == saved

\* line 82: this.numFramesRendered++
NextFrameCount(n) == n + 1

\* var numChannels = 4; ... numChannels = 1
DefaultChannels == 4
GrayChannels == 1

\* lines 134-139
FrameRecord(data, encoding, numChannels) ==
  [type |-> "color", data |-> data, encoding |-> encoding,
   shape |-> <<renderer.width, renderer.height, numChannels>>]

GetFrameBegin(s) ==
  /\ pc = "idle"
  /\ numFramesRendered < MaxFrames
  /\ frame' = [NoFrame EXCEPT
                 !.scene = s,
                 !.debugNodeVisibility =
                    IF debugNode.present THEN debugNode.visible ELSE FALSE,
                 !.visBefore = debugNode.visible,
                 !.countBefore = numFramesRendered]
  /\ debugNode' = IF debugNode.present
                    THEN [debugNode EXCEPT
                            !.visible = VisibilityDuringCapture(showDebugNode, @)]
                    ELSE debugNode
  /\ pc' = "capture"
  /\ UNCHANGED <<heap, isBrowser, factory, showDebugNode, camera, renderer,
                 numFramesRendered, scenes, scenePixels, result, pngFiles,
                 factoryArg, sizeLog, config0>>

RendererMethodFallThrough(encoding) ==
  CASE encoding \in {"rgba", "gray"} -> "renderToRawPixels"
    [] encoding = "pngbuf" -> "renderToBuffer"
    [] encoding \in {"pngfile", "pngseq"} -> "renderToPng"
    [] OTHER -> "render"

\* the renderer method the switch of lines 102-132 calls
RendererMethod(encoding) ==
  CASE encoding \in {"rgba", "gray"} -> "renderToRawPixels"
    [] encoding = "pngbuf" -> "renderToBuffer"
    [] encoding \in {"pngfile", "pngseq"} -> "renderToPng"
    [] encoding = "screen" -> "render"
    [] OTHER -> "none"

\* the payload of every encoding but 'gray'
Payload(encoding) ==
  CASE encoding = "rgba" -> [kind |-> "raw", bytes |-> scenePixels]
    [] encoding = "pngbuf" -> [kind |-> "png", bytes |-> <<>>]
    [] encoding \in {"pngfile", "pngseq"} -> [kind |-> "file", bytes |-> <<>>]
    [] encoding = "screen" -> [kind |-> "screen", bytes |-> <<>>]
    [] OTHER -> NullData

\* the switch of __getFrame, the renderer returning normally
Capture ==
  /\ pc = "capture"
  /\ LET encoding == SensorEncoding
         f1 == [frame EXCEPT !.drawn = RendererMethod(encoding)]
     IN /\ IF encoding = "gray"
             THEN /\ frame' = [f1 EXCEPT !.p = scenePixels, !.i = 0]
                  /\ pc' = "gray"
             ELSE /\ frame' = [f1 EXCEPT !.record =
                                 FrameRecord(Payload(encoding), encoding, DefaultChannels)]
                  /\ pc' = "finish"
        /\ pngFiles' =
             CASE encoding = "pngfile" ->
                    Append(pngFiles, [scene |-> frame.scene, count |-> numFramesRendered,
                                      file |-> PngFileName(frame.scene, SensorName)])
               [] encoding = "pngseq" ->
                    Append(pngFiles, [scene |-> frame.scene, count |-> numFramesRendered,
                                      file |-> PngSeqName(frame.scene, SensorName,
                                                          numFramesRendered)])
               [] OTHER -> pngFiles
  /\ UNCHANGED <<heap, isBrowser, factory, showDebugNode, camera, renderer,
                 numFramesRendered, debugNode, scenes, scenePixels, result,
                 factoryArg, sizeLog, config0>>

\* the renderer method throws: the exception leaves __getFrame and getFrame
CaptureThrows ==
  /\ pc = "capture"
  /\ RendererMethod(SensorEncoding) # "none"
  /\ result' = [kind |-> "threw",
                frame |-> [frame EXCEPT !.drawn = RendererMethod(SensorEncoding)]]
  /\ frame' = NoFrame
  /\ pc' = "idle"
  /\ UNCHANGED <<heap, isBrowser, factory, showDebugNode, camera, renderer,
                 numFramesRendered, debugNode, scenes, scenePixels, pngFiles,
                 factoryArg, sizeLog, config0>>

\* var ngraypixels = p.length / 4
GrayPixels(p) == Len(p) \div 4

\* one iteration of the loop of lines 109-112
GrayStep ==
  /\ pc = "gray"
  /\ frame.i < GrayPixels(frame.p)
  /\ frame' = [frame EXCEPT
                 !.p = GrayIter(@, frame.i),
                 !.i = @ + 1,
                 !.written = @ \cup {frame.i},
                 !.staleRead = @ \/ (GrayReads(frame.i) \cap frame.written # {})]
  /\ UNCHANGED <<pc, heap, isBrowser, factory, showDebugNode, camera, renderer,
                 numFramesRendered, debugNode, scenes, scenePixels, result,
                 pngFiles, factoryArg, sizeLog, config0>>

\* lines 113-115 and the return of __getFrame
GrayDone ==
  /\ pc = "gray"
  /\ frame.i >= GrayPixels(frame.p)
  /\ frame' = [frame EXCEPT !.record =
                 FrameRecord([kind |-> "raw",
                              bytes |-> SubSeq(frame.p, 1, GrayPixels(frame.p))],
                             SensorEncoding, GrayChannels)]
  /\ pc' = "finish"
  /\ UNCHANGED <<heap, isBrowser, factory, showDebugNode, camera, renderer,
                 numFramesRendered, debugNode, scenes, scenePixels, result,
                 pngFiles, factoryArg, sizeLog, config0>>

\* lines 82-88
GetFrameEnd ==
  /\ pc = "finish"
  /\ numFramesRendered' = NextFrameCount(numFramesRendered)
  /\ debugNode' = IF debugNode.present
                    THEN [debugNode EXCEPT
                            !.visible = VisibilityAfterCapture(frame.debugNodeVisibility, @)]
                    ELSE debugNode
  /\ result' = [kind |-> "returned", frame |-> frame]
  /\ frame' = NoFrame
  /\ pc' = "idle"
  /\ UNCHANGED <<heap, isBrowser, factory, showDebugNode, camera, renderer,
                 scenes, scenePixels, pngFiles, factoryArg, sizeLog, config0>>

----------------------------------------------------------------------------
(* Initial states and specifications *)

ByteVals == {0, 255}
RendererMaxSizes == {2, 64}
Hints == {NoHint, "main", "offscreen"}

\* a caller's config: width/height are either both absent or repeat resolution;
\* fov/near/far are either all given or all left to the defaults
CallerConfig(res, wh, hint, optics, views, enc) ==
  [EmptyObj EXCEPT
     !.name = "cam0",
     !.position = [k \in 1..views |-> k],
     !.resolution = res,
     !.width = IF wh THEN res[1] ELSE Undefined,
     !.height = IF wh THEN res[2] ELSE Undefined,
     !.renderer = hint,
     !.fov = IF optics THEN 60 ELSE Undefined,
     !.near = IF optics THEN 500 ELSE Undefined,
     !.far = IF optics THEN 10000 ELSE Undefined,
     !.encoding = enc]

InitWith(cfg) ==
  /\ pc = "new"
  /\ heap = [o \in ObjIds |-> IF o = ConfigObj THEN cfg ELSE EmptyObj]
  /\ config0 = cfg
  /\ camera = NoCamera
  /\ renderer = NoRenderer
  /\ numFramesRendered = Undefined
  /\ frame = NoFrame
  /\ result = NoResult
  /\ pngFiles = <<>>
  /\ factoryArg = [ref |-> ConfigObj, obj |-> EmptyObj]
  /\ sizeLog = NoSizeLog

ExactFactory == [ownSize |-> NoShape, maxSize |-> 64]

\* construction and resizing, over every caller config and renderer factory
Init ==
  /\ \E res \in Dims \X Dims, wh \in BOOLEAN, hint \in Hints, optics \in BOOLEAN,
        views \in 1..MaxViews :
       InitWith(CallerConfig(res, wh, hint, optics, views, "rgba"))
  /\ isBrowser \in BOOLEAN
  /\ factory \in [ownSize : {NoShape} \cup (Dims \X {1}), maxSize : RendererMaxSizes]
  /\ showDebugNode = FALSE
  /\ debugNode = [present |-> FALSE, visible |-> FALSE]
  /\ scenes = {"scene1"}
  /\ scenePixels = <<>>

Next ==
  \/ Construct
  \/ \E w \in SizeArgs, h \in SizeArgs : SetSize(w, h)

Spec == Init /\ [][Next]_vars

NextFrame ==
  \/ Construct
  \/ \E s \in scenes : GetFrameBegin(s)
  \/ Capture
  \/ CaptureThrows
  \/ GrayStep
  \/ GrayDone
  \/ GetFrameEnd

\* frame capture of a single camera under every encoding and debug node
InitFrame ==
  /\ \E enc \in Encodings \cup UnknownEncodings :
       InitWith(CallerConfig(<<1, 1>>, FALSE, NoHint, FALSE, 1, enc))
  /\ isBrowser = FALSE
  /\ factory = ExactFactory
  /\ showDebugNode \in BOOLEAN
  /\ debugNode \in [present : BOOLEAN, visible : BOOLEAN]
  /\ scenes = {"scene1"}
  /\ scenePixels \in [1..4 -> ByteVals]

SpecFrame == InitFrame /\ [][NextFrame]_vars

\* sequences of captures of several scenes
InitSeq ==
  /\ \E enc \in Encodings \cup UnknownEncodings :
       InitWith(CallerConfig(<<1, 1>>, FALSE, NoHint, FALSE, 1, enc))
  /\ isBrowser = FALSE
  /\ factory = ExactFactory
  /\ showDebugNode = FALSE
  /\ debugNode = [present |-> FALSE, visible |-> FALSE]
  /\ scenes = {"scene1", "scene2"}
  /\ scenePixels = <<0, 255, 0, 255>>

SpecSeq == InitSeq /\ [][NextFrame]_vars

\* grayscale capture of every raw buffer of 1..MaxPixels pixels
InitGray ==
  /\ \E n \in 1..MaxPixels :
       /\ InitWith(CallerConfig(<<n, 1>>, FALSE, NoHint, FALSE, 1, "gray"))
       /\ scenePixels \in [1..(4 * n) -> ByteVals]
  /\ isBrowser = FALSE
  /\ factory = ExactFactory
  /\ showDebugNode = FALSE
  /\ debugNode = [present |-> FALSE, visible |-> FALSE]
  /\ scenes = {"scene1"}

SpecGray == InitGray /\ [][NextFrame]_vars

----------------------------------------------------------------------------
(* Properties *)

Returned == pc = "idle" /\ result.kind = "returned"
Threw == pc = "idle" /\ result.kind = "threw"
Constructed == pc # "new"

\* C1: for a sceneState that carries a debugNode, debugNode.visible equals
\* showDebugNode from the moment the capture step starts until it has returned,
\* and once getFrame has returned it equals the value it had before the call.
C1_DebugNodeOverrideAndRestore ==
  debugNode.present =>
    /\ pc \in {"capture", "gray", "finish"} => debugNode.visible = showDebugNode
    /\ Returned => debugNode.visible = result.frame.visBefore

\* a returned capture that drew with the node hidden and then showed it again
C1_Witness ==
  /\ Returned
  /\ debugNode.present
  /\ result.frame.drawn # "none"
  /\ result.frame.visBefore
  /\ ~showDebugNode
  /\ debugNode.visible

\* C2: when the capture step throws, debugNode.visible still equals its
\* value from before the getFrame call once control has left getFrame.
C2_RestoredWhenCaptureThrows ==
  (Threw /\ debugNode.present) => debugNode.visible = result.frame.visBefore

\* the five digits of a counter below 100000, most significant first
FiveDigits(c) ==
  <<DigitChars[((c \div 10000) % 10) + 1], DigitChars[((c \div 1000) % 10) + 1],
    DigitChars[((c \div 100) % 10) + 1], DigitChars[((c \div 10) % 10) + 1],
    DigitChars[(c % 10) + 1]>>

ExpectedSeqName(scene, name, c) ==
  <<scene, "_", name, "_">> \o FiveDigits(c) \o <<".png">>

C4_UnknownEncoding ==
  (Constructed /\ SensorEncoding \notin Encodings) =>
    /\ result.kind # "threw"
    /\ pc = "finish" => frame.drawn = "none"
    /\ Returned =>
         /\ result.frame.drawn = "none"
         /\ result.frame.record =
              [type |-> "color", data |-> NullData, encoding |-> SensorEncoding,
               shape |-> <<renderer.width, renderer.height, 4>>]
         /\ numFramesRendered = result.frame.countBefore + 1
         /\ debugNode.present => debugNode.visible = result.frame.visBefore

C4_Witness ==
  /\ Returned
  /\ SensorEncoding = "bogus"
  /\ result.frame.record.encoding = "bogus"
  /\ debugNode.present
  /\ result.frame.visBefore # showDebugNode
  /\ numFramesRendered = 2

\* C5: the constructor invokes setSize, with the renderer's width and height,
\* exactly when the renderer's size differs from the resolution the sensor
\* asked the factory for.
C5_ResizeIffRendererSizeDiffers ==
  [][pc = "new" =>
       /\ sizeLog'.called <=>
            \/ renderer'.width # factoryArg'.obj.resolution[1]
            \/ renderer'.height # factoryArg'.obj.resolution[2]
       /\ sizeLog'.called =>
            /\ sizeLog'.width = renderer'.width
            /\ sizeLog'.height = renderer'.height]_vars

\* the integer part of a double held in limbs
Truncated(a) == a[3] \div 4096

\* C6: under 'gray' the data of a frame has one entry per pixel of the raw
\* buffer, entry i is the truncated luma of pixel i of the buffer as the
\* renderer returned it, no iteration reads a byte an earlier one overwrote,
\* every entry is in 0..255 and the channel count is 1.
C6_GrayLumaOfOriginalPixels ==
  (Constructed /\ SensorEncoding = "gray") =>
    /\ pc \in {"gray", "finish"} => ~frame.staleRead
    /\ Returned =>
         LET out == result.frame.record.data.bytes
             n == Len(scenePixels) \div 4
         IN /\ ~result.frame.staleRead
            /\ Len(out) = n
            /\ \A k \in 1..n :
                 /\ out[k] = Truncated(Luma(scenePixels[4 * (k - 1) + 1],
                                            scenePixels[4 * (k - 1) + 2],
                                            scenePixels[4 * (k - 1) + 3]))
                 /\ out[k] \in 0..255
            /\ result.frame.record.shape[3] = 1

\* two pixels, red then white: the doubles truncate to 54 and 254
C6_Witness ==
  /\ Returned
  /\ SensorEncoding = "gray"
  /\ scenePixels = <<255, 0, 0, 255, 255, 255, 255, 255>>
  /\ result.frame.record.data.bytes = <<54, 254>>
  /\ result.frame.written = {0, 1}

\* C7: setSize(w, h) calls renderer.setSize exactly when the renderer's width
\* or height differs from (w, h); in either case the camera's aspect becomes
\* w / h, its projection is recomputed and an array camera's sub-cameras are
\* resized, and a second setSize(w, h) leaves the camera and renderer as the
\* first one left them.
C7_SetSizeResizesRendererIffDifferent ==
  [][(pc = "idle" /\ pc' = "idle") =>
       LET w == sizeLog'.width
           h == sizeLog'.height
           again == SetSizeOp(camera', renderer', w, h)
       IN /\ sizeLog'.called
          /\ sizeLog'.rendererSetSize <=> (renderer.width # w \/ renderer.height # h)
          /\ ~sizeLog'.rendererSetSize => renderer' = renderer
          /\ camera'.aspect = Ratio(w, h)
          /\ camera'.projAspect = camera'.aspect
          /\ camera'.isArrayCamera => camera'.subSize = <<w, h>>
          /\ again.camera = camera'
          /\ again.renderer = renderer']_vars

\* a setSize with the renderer's own size, after one that resized it
C7_Witness ==
  /\ pc = "idle"
  /\ sizeLog.called
  /\ ~sizeLog.inConstructor
  /\ ~sizeLog.rendererSetSize
  /\ sizeLog.width = 3
  /\ renderer.width = 3
  /\ renderer.height = sizeLog.height
  /\ camera.aspect = Ratio(3, sizeLog.height)

\* what C8 says of every field but the hint
C8_FactoryConfig ==
  IF Len(config0.position) > 1
    THEN /\ camera.isArrayCamera
         /\ factoryArg.ref # ConfigObj
         /\ factoryArg.obj.resolution = camera.imageShape
         /\ factoryArg.obj.resolution # config0.resolution
         /\ factoryArg.obj.cameraArrayShape = camera.shape
    ELSE /\ factoryArg.ref = ConfigObj
         /\ factoryArg.obj.resolution = config0.resolution
         /\ factoryArg.obj.renderer = config0.renderer

\* C8 as stated: for an array config the factory's config lacks the renderer
\* hint exactly when the code runs outside a browser and the hint is 'main'.
C8_HintLackedIffMainOutsideBrowser ==
  Constructed =>
    /\ C8_FactoryConfig
    /\ Len(config0.position) > 1 =>
         (factoryArg.obj.renderer = NoHint
            <=> (~isBrowser /\ config0.renderer = "main"))

\* C8: for an array config the factory receives a config with the array
\* camera's image shape as resolution and its layout as cameraArrayShape, and
\* with the caller's renderer hint, which is removed exactly when the code
\* runs outside a browser and the hint is 'main'; for a single position the
\* factory receives the caller's config with its resolution and hint.
C8_HintRemovedIffMainOutsideBrowser ==
  Constructed =>
    /\ C8_FactoryConfig
    /\ Len(config0.position) > 1 =>
         factoryArg.obj.renderer =
           IF ~isBrowser /\ config0.renderer = "main" THEN NoHint
           ELSE config0.renderer

C8_Witness ==
  /\ Constructed
  /\ Len(config0.position) = 2
  /\ ~isBrowser
  /\ config0.renderer = "main"
  /\ factoryArg.obj.renderer = NoHint
  /\ config0.resolution = <<2, 1>>
  /\ factoryArg.obj.resolution = <<4, 1>>
  /\ factoryArg.obj.cameraArrayShape = <<2, 1>>

\* C9: for a single camera, after construction and after every setSize,
\* camera.aspect equals renderer.width / renderer.height.
C9_AspectMatchesRenderer ==
  (pc = "idle" /\ ~camera.isArrayCamera) =>
    camera.aspect = Ratio(renderer.width, renderer.height)

\* C10: construction leaves every field of the caller's config as it was.
C10_CallerConfigUnchanged ==
  Constructed => heap[ConfigObj] = config0

\* an array sensor built from a config without fov/near/far and with the
\* 'main' hint: all four private changes happened
C10_Witness ==
  /\ Constructed
  /\ Len(config0.position) > 1
  /\ config0.near = Undefined
  /\ heap[CameraConfigObj].near = DefaultNear * metersToVirtualUnit
  /\ heap[CameraConfigObj].fov = DefaultFov
  /\ config0.renderer = "main"
  /\ factoryArg.obj.renderer = NoHint
  /\ factoryArg.obj.cameraArrayShape # NoShape
  /\ factoryArg.obj.resolution # config0.resolution
  /\ heap[ConfigObj].cameraArrayShape = NoShape

====
